---- MODULE Spec2Model ----
(***************************************************************************)
(* Model of the name-resolution core of scripts/notion.py: the NotionCache *)
(* class (load, save, is_stale, update_from_search, find_by_path,          *)
(* get_title), is_uuid and resolve_id.                                     *)
(*                                                                         *)
(* Python values that may be None, a bool or a str are tagged pairs        *)
(* <<tag, payload>>; a str payload is its sequence of characters.  A dict  *)
(* is the sequence of its <<key, value>> pairs in insertion order.         *)
(***************************************************************************)
EXTENDS Integers, Sequences, FiniteSets, TLC

VARIABLES
    data,        \* NotionCache.data of the running invocation
    file,        \* content of the cache file, or NoFile
    dirExists,   \* whether the directory that holds the cache file exists
    now,         \* wall clock, in hours
    raised,      \* whether the last operation let an exception escape
    pc,          \* position of the running command
    name,        \* resolve_id: name_or_id
    kind,        \* resolve_id: obj_type
    returned,    \* resolve_id: value returned, PyNone while there is none
    failure,     \* resolve_id: <<obj_type, name_or_id>> of the raised ClickException
    query,       \* arguments of the search call in flight: <<query, filter_type>>
    searches,    \* number of search calls issued by the running command
    lookups,     \* number of find_by_path calls made by the running command
    got,         \* result list handed back by the last search of the running command
    before,      \* <<data, file>> when the running resolve_id call started
    updatedAt,   \* clock when update_from_search last returned, -1 before the first
    peer,        \* a second invocation on the same cache file: its position and its data
    pager        \* the pagination loop of search_notion or of query database

vars == <<data, file, dirExists, now, raised, pc, name, kind, returned, failure,
          query, searches, lookups, got, before, updatedAt, peer, pager>>

-----------------------------------------------------------------------------
(* Python values *)

PyNone == <<"none", <<>>>>
PyTrue == <<"bool", <<"true">>>>
PyFalse == <<"bool", <<"false">>>>
PyStr(s) == <<"str", s>>

\* a dict with at least one key (here: a property object, payload its "title" array)
PyDict(a) == <<"dict", a>>
\* a list
PyList(a) == <<"list", a>>

\* bool(v)
Truthy(v) ==
    CASE v[1] = "none" -> FALSE
      [] v[1] = "bool" -> v = PyTrue
      [] v[1] = "dict" -> TRUE
      [] OTHER -> Len(v[2]) > 0

\* a or b
PyOr(a, b) == IF Truthy(a) THEN a ELSE b

-----------------------------------------------------------------------------
(* Strings *)

UpperCase == <<"A", "B", "C", "D", "E", "F", "G", "H", "I", "J", "K", "L", "M",
               "N", "O", "P", "Q", "R", "S", "T", "U", "V", "W", "X", "Y", "Z">>
LowerCase == <<"a", "b", "c", "d", "e", "f", "g", "h", "i", "j", "k", "l", "m",
               "n", "o", "p", "q", "r", "s", "t", "u", "v", "w", "x", "y", "z">>

ToLower ==
    [c \in {UpperCase[i] : i \in 1..Len(UpperCase)} |->
        LowerCase[CHOOSE i \in 1..Len(UpperCase) : UpperCase[i] = c]]

\* str.lower() on one character
LowerChar(c) == IF c \in DOMAIN ToLower THEN ToLower[c] ELSE c

\* str.lower()
Lower(s) == [i \in 1..Len(s) |-> LowerChar(s[i])]

Whitespace == {" "}

\* str.strip()
Strip(s) ==
    LET keep == {i \in 1..Len(s) : s[i] \notin Whitespace}
    IN  IF keep = {} THEN <<>>
        ELSE LET lo == CHOOSE i \in keep : \A j \in keep : i <= j
                 hi == CHOOSE i \in keep : \A j \in keep : j <= i
             IN  SubSeq(s, lo, hi)

\* str.replace(c, "") for a single character c
Remove(s, c) == SelectSeq(s, LAMBDA x : x # c)

\* str.split("/")
RECURSIVE SplitAt(_, _, _)
SplitAt(s, sep, cur) ==
    IF s = <<>> THEN <<cur>>
    ELSE IF Head(s) = sep THEN <<cur>> \o SplitAt(Tail(s), sep, <<>>)
    ELSE SplitAt(Tail(s), sep, Append(cur, Head(s)))

Split(s) == SplitAt(s, "/", <<>>)

\* the string c * n
Rep(c, n) == [i \in 1..n |-> c]

-----------------------------------------------------------------------------
(* dict, insertion ordered *)

DictKeys(d) == {d[i][1] : i \in 1..Len(d)}
DictHas(d, k) == \E i \in 1..Len(d) : d[i][1] = k
DictIndex(d, k) == CHOOSE i \in 1..Len(d) : d[i][1] = k
DictGet(d, k) == d[DictIndex(d, k)][2]

\* d[k] = v: an existing key keeps its position
DictSet(d, k, v) ==
    IF DictHas(d, k) THEN [d EXCEPT ![DictIndex(d, k)] = <<k, v>>]
    ELSE Append(d, <<k, v>>)

\* self.data.get(k, default): self.data is a record, of which a document
\* written by someone else may lack keys
Get(d, k, default) == IF k \in DOMAIN d THEN d[k] ELSE default

\* d1 == d2 on dicts: the order of the keys does not count
DictEq(d1, d2) ==
    /\ DictKeys(d1) = DictKeys(d2)
    /\ \A k \in DictKeys(d1) : DictGet(d1, k) = DictGet(d2, k)

-----------------------------------------------------------------------------
(* Time: datetime.now() is the clock in whole hours; isoformat() writes it *)
(* as <<day, hour of day>> and fromisoformat() reads that back.            *)

HoursPerDay == 24
CACHE_TTL_HOURS == 24

IsoFormat(t) == PyStr(<<t \div HoursPerDay, t % HoursPerDay>>)
FromIsoFormat(v) == v[2][1] * HoursPerDay + v[2][2]

-----------------------------------------------------------------------------
(* The cache *)

EmptyCache ==
    [pages |-> <<>>, databases |-> <<>>, hierarchy |-> <<>>, last_refresh |-> PyNone]

\* json.dump turns a key that is not a str into one: None -> "null",
\* True -> "true", False -> "false"
JsonKey(k) ==
    CASE k = PyNone -> PyStr(<<"n", "u", "l", "l">>)
      [] k = PyTrue -> PyStr(<<"t", "r", "u", "e">>)
      [] k = PyFalse -> PyStr(<<"f", "a", "l", "s", "e">>)
      [] OTHER -> k

\* the members of a JSON object as json.dump writes them, one per key of
\* the dict, in the dict's order (two keys may be written with the same name)
JsonMembers(d) == [i \in 1..Len(d) |-> <<JsonKey(d[i][1]), d[i][2]>>]

\* json.load of an object: a repeated name keeps its first position and
\* its last value
RECURSIVE JsonObject(_, _)
JsonObject(members, acc) ==
    IF members = <<>> THEN acc
    ELSE JsonObject(Tail(members), DictSet(acc, Head(members)[1], Head(members)[2]))

\* d has the four keys of the cache, and no other
HasAllKeys(d) == DOMAIN d = DOMAIN EmptyCache

\* json.dump(self.data): the document written
JsonDump(d) ==
    IF HasAllKeys(d)
    THEN [pages |-> JsonMembers(d.pages),
          databases |-> JsonMembers(d.databases),
          hierarchy |-> JsonMembers(d.hierarchy),
          last_refresh |-> d.last_refresh]
    ELSE [k \in DOMAIN d |->
             IF k = "last_refresh" THEN d[k] ELSE JsonMembers(d[k])]

\* json.load of a document: whatever keys it has
JsonLoad(doc) ==
    IF HasAllKeys(doc)
    THEN [pages |-> JsonObject(doc.pages, <<>>),
          databases |-> JsonObject(doc.databases, <<>>),
          hierarchy |-> JsonObject(doc.hierarchy, <<>>),
          last_refresh |-> doc.last_refresh]
    ELSE [k \in DOMAIN doc |->
             IF k = "last_refresh" THEN doc[k] ELSE JsonObject(doc[k], <<>>)]

\* The cache file: missing, or text that json.load parses ("json") or
\* rejects (empty, cut short, not JSON at all)
NoFile == [kind |-> "missing", doc |-> JsonDump(EmptyCache)]

\* json.load raises on this file
JsonLoadRaises(f) == f.kind # "json"

\* mutant of Load: the parse failure is not caught
Load_Uncaught(f) ==
    IF f.kind = "missing" THEN [val |-> EmptyCache, exc |-> FALSE]
    ELSE IF JsonLoadRaises(f) THEN [val |-> EmptyCache, exc |-> TRUE]
    ELSE [val |-> JsonLoad(f.doc), exc |-> FALSE]

\* NotionCache._load: val is the dict returned, exc whether it raised
Load(f) ==
    IF f.kind = "missing" THEN [val |-> EmptyCache, exc |-> FALSE]
    ELSE IF JsonLoadRaises(f) THEN [val |-> EmptyCache, exc |-> FALSE]
    ELSE [val |-> JsonLoad(f.doc), exc |-> FALSE]

\* NotionCache._save: the file written
Save(d) == [kind |-> "json", doc |-> JsonDump(d)]

\* mutant of WriteFile: what the file holds is read back and kept, the
\* entries of d are laid over it
WriteFile_Merge(f, d) ==
    IF f.kind = "json" /\ HasAllKeys(f.doc)
    THEN LET old == JsonLoad(f.doc)
             Over(was, is) == SelectSeq(was, LAMBDA kv : ~DictHas(is, kv[1])) \o is
         IN  Save([pages |-> Over(old.pages, d.pages),
                   databases |-> Over(old.databases, d.databases),
                   hierarchy |-> Over(old.hierarchy, d.hierarchy),
                   last_refresh |-> d.last_refresh])
    ELSE Save(d)

\* _save on a path where the file f is: open(path, 'w') empties it and
\* json.dump writes self.data, nothing of f is read or kept
WriteFile(f, d) == Save(d)

\* open(path, 'w') fails when the directory is not there
SaveRaises(dir) == ~dir

\* mutant of IsStale: the threshold is taken in days, timedelta(days=...)
IsStale_TtlInDays(d, t) ==
    IF ~Truthy(Get(d, "last_refresh", PyNone)) THEN TRUE
    ELSE t - FromIsoFormat(d.last_refresh) > CACHE_TTL_HOURS * HoursPerDay

\* NotionCache.is_stale at clock t (for a last_refresh that fromisoformat
\* accepts)
IsStale(d, t) ==
    IF ~Truthy(Get(d, "last_refresh", PyNone)) THEN TRUE
    ELSE t - FromIsoFormat(d.last_refresh) > CACHE_TTL_HOURS

\* datetime.fromisoformat accepts the string v: it has the two fields
\* isoformat() writes
IsoParses(v) == Len(v[2]) = Len(IsoFormat(0)[2])

\* is_stale raises: last_refresh is there and truthy, and fromisoformat
\* rejects it (ValueError)
IsStaleRaises(d) ==
    /\ Truthy(Get(d, "last_refresh", PyNone))
    /\ ~IsoParses(d.last_refresh)

-----------------------------------------------------------------------------
(* update_from_search *)

Untitled == PyStr(<<"U", "n", "t", "i", "t", "l", "e", "d">>)
WorkspaceLiteral == PyStr(<<"w", "o", "r", "k", "s", "p", "a", "c", "e">>)

\* rich_text.get("plain_text", "Untitled"): a rich text object is held as its
\* plain_text, PyNone when it has none
PlainText(rt) == IF rt = PyNone THEN Untitled ELSE rt

\* lines 128-137: the title of a search result
ExtractTitle(item) ==
    IF item.object = "page"
    THEN LET title_prop == PyOr(item.props_title, item.props_Name)
         IN  IF Truthy(title_prop) /\ Len(title_prop[2]) > 0
             THEN PlainText(title_prop[2][1])
             ELSE Untitled
    ELSE IF item.object = "database"
    THEN IF Truthy(item.title) THEN PlainText(item.title[2][1]) ELSE Untitled
    ELSE Untitled

\* lines 140-141: parent.get("page_id") or parent.get("database_id") or
\* parent.get("workspace")
ExtractParent(item) ==
    PyOr(PyOr(item.parent.page_id, item.parent.database_id), item.parent.workspace)

\* lines 144-151
CacheEntry(item, t) ==
    [id |-> item.id,
     title |-> ExtractTitle(item),
     parent_id |-> ExtractParent(item),
     url |-> item.url,
     last_seen |-> IsoFormat(t),
     archived |-> item.archived]

\* mutant of UpdateHierarchy: the child is appended without the membership test
UpdateHierarchy_NoDedup(h, parent_id, item_id) ==
    IF Truthy(parent_id) /\ parent_id # WorkspaceLiteral
    THEN LET h1 == IF DictHas(h, parent_id) THEN h ELSE DictSet(h, parent_id, <<>>)
         IN  DictSet(h1, parent_id, Append(DictGet(h1, parent_id), item_id))
    ELSE h

\* mutant of UpdateHierarchy: the child is compared with the last child of
\* the list only
UpdateHierarchy_LastOnly(h, parent_id, item_id) ==
    IF Truthy(parent_id) /\ parent_id # WorkspaceLiteral
    THEN LET h1 == IF DictHas(h, parent_id) THEN h ELSE DictSet(h, parent_id, <<>>)
             kids == DictGet(h1, parent_id)
         IN  IF kids # <<>> /\ kids[Len(kids)] = item_id
             THEN h1
             ELSE DictSet(h1, parent_id, Append(kids, item_id))
    ELSE h

\* mutant of UpdateHierarchy: the child is first taken off the lists of its
\* other parents
UpdateHierarchy_Moved(h, parent_id, item_id) ==
    LET pruned == [i \in 1..Len(h) |->
                      <<h[i][1],
                        IF h[i][1] = parent_id THEN h[i][2]
                        ELSE SelectSeq(h[i][2], LAMBDA c : c # item_id)>>]
    IN  IF Truthy(parent_id) /\ parent_id # WorkspaceLiteral
        THEN LET h1 == IF DictHas(pruned, parent_id) THEN pruned
                       ELSE DictSet(pruned, parent_id, <<>>)
                 kids == DictGet(h1, parent_id)
             IN  IF \E i \in 1..Len(kids) : kids[i] = item_id
                 THEN h1
                 ELSE DictSet(h1, parent_id, Append(kids, item_id))
        ELSE pruned

\* lines 158-163: the hierarchy index after one result
UpdateHierarchy(h, parent_id, item_id) ==
    IF Truthy(parent_id) /\ parent_id # WorkspaceLiteral
    THEN LET h1 == IF DictHas(h, parent_id) THEN h ELSE DictSet(h, parent_id, <<>>)
             kids == DictGet(h1, parent_id)
         IN  IF \E i \in 1..Len(kids) : kids[i] = item_id
             THEN h1
             ELSE DictSet(h1, parent_id, Append(kids, item_id))
    ELSE h

\* lines 125-163: the body of the loop, for one result
UpdateOne(d, item, t) ==
    LET entry == CacheEntry(item, t)
    IN  [pages |-> IF item.object = "page"
                   THEN DictSet(d.pages, item.id, entry) ELSE d.pages,
         databases |-> IF item.object = "database"
                       THEN DictSet(d.databases, item.id, entry) ELSE d.databases,
         hierarchy |-> UpdateHierarchy(d.hierarchy, entry.parent_id, item.id),
         last_refresh |-> d.last_refresh]

RECURSIVE UpdateAll(_, _, _)
UpdateAll(d, results, t) ==
    IF results = <<>> THEN d
    ELSE UpdateAll(UpdateOne(d, Head(results), t), Tail(results), t)

\* NotionCache.update_from_search: self.data when it returns (it has then
\* also been written to the file)
UpdateFromSearch(d, results, t) ==
    [UpdateAll(d, results, t) EXCEPT !.last_refresh = IsoFormat(t)]

\* the loop body raises on this result: self.data["pages"],
\* self.data["databases"] or self.data["hierarchy"] is not there (KeyError)
UpdateOneRaises(d, item) ==
    \/ item.object = "page" /\ "pages" \notin DOMAIN d
    \/ item.object = "database" /\ "databases" \notin DOMAIN d
    \/ /\ Truthy(ExtractParent(item))
       /\ ExtractParent(item) # WorkspaceLiteral
       /\ "hierarchy" \notin DOMAIN d

\* update_from_search raises on these results
UpdateRaises(d, results) ==
    \E i \in 1..Len(results) : UpdateOneRaises(d, results[i])

\* update_from_search on a document that may lack keys, when it does not
\* raise: the keys that are missing are not touched, last_refresh is set
UpdateAnyShape(d, results, t) ==
    IF HasAllKeys(d) THEN UpdateFromSearch(d, results, t)
    ELSE LET full == UpdateFromSearch(
                         [k \in DOMAIN EmptyCache |-> Get(d, k, EmptyCache[k])],
                         results, t)
         IN  [k \in DOMAIN d \cup {"last_refresh"} |->
                 IF k \in DOMAIN EmptyCache THEN full[k] ELSE d[k]]

-----------------------------------------------------------------------------
(* find_by_path, get_title *)

\* mutant of FindByTitle: the last match is returned
FindByTitle_LastMatch(d, title, obj_type, parent_id) ==
    LET collection == Get(d, IF obj_type = "page" THEN "pages" ELSE "databases", <<>>)
        matches == SelectSeq(collection,
                       LAMBDA kv : /\ Lower(kv[2].title[2]) = Lower(title)
                                   /\ (parent_id = PyNone \/ kv[2].parent_id = parent_id))
    IN  IF matches # <<>> THEN matches[Len(matches)][1] ELSE PyNone

\* mutant of FindByTitle: several matches are an error, reported as not found
FindByTitle_Ambiguous(d, title, obj_type, parent_id) ==
    LET collection == Get(d, IF obj_type = "page" THEN "pages" ELSE "databases", <<>>)
        matches == SelectSeq(collection,
                       LAMBDA kv : /\ Lower(kv[2].title[2]) = Lower(title)
                                   /\ (parent_id = PyNone \/ kv[2].parent_id = parent_id))
    IN  IF Len(matches) = 1 THEN matches[1][1] ELSE PyNone

\* mutant of FindByTitle: the parent is not compared
FindByTitle_IgnoreParent(d, title, obj_type, parent_id) ==
    LET collection == Get(d, IF obj_type = "page" THEN "pages" ELSE "databases", <<>>)
        matches == SelectSeq(collection,
                       LAMBDA kv : Lower(kv[2].title[2]) = Lower(title))
    IN  IF matches # <<>> THEN matches[1][1] ELSE PyNone

\* mutant of FindByTitle: the children of a parent are taken from the
\* hierarchy index
FindByTitle_ViaIndex(d, title, obj_type, parent_id) ==
    LET collection == Get(d, IF obj_type = "page" THEN "pages" ELSE "databases", <<>>)
        index == Get(d, "hierarchy", <<>>)
        kids == IF DictHas(index, parent_id) THEN DictGet(index, parent_id) ELSE <<>>
        matches == SelectSeq(collection,
                       LAMBDA kv : /\ Lower(kv[2].title[2]) = Lower(title)
                                   /\ \/ parent_id = PyNone
                                      \/ \E n \in 1..Len(kids) : kids[n] = kv[1])
    IN  IF matches # <<>> THEN matches[1][1] ELSE PyNone

\* NotionCache._find_by_title; parent_id = PyNone is the default argument
\* (for a collection whose entries all have a title)
FindByTitle(d, title, obj_type, parent_id) ==
    LET collection == Get(d, IF obj_type = "page" THEN "pages" ELSE "databases", <<>>)
        matches == SelectSeq(collection,
                       LAMBDA kv : /\ Lower(kv[2].title[2]) = Lower(title)
                                   /\ (parent_id = PyNone \/ kv[2].parent_id = parent_id))
    IN  IF matches # <<>> THEN matches[1][1] ELSE PyNone

\* mutant of Traverse: when the first match of a segment leads nowhere the
\* next match is tried
RECURSIVE Traverse_Backtrack(_, _, _, _, _)
Traverse_Backtrack(d, parts, i, obj_type, current_id) ==
    IF i > Len(parts) THEN current_id
    ELSE LET collection ==
                 Get(d, IF obj_type = "page" THEN "pages" ELSE "databases", <<>>)
             matches ==
                 SelectSeq(collection,
                     LAMBDA kv : /\ Lower(kv[2].title[2]) = Lower(parts[i])
                                 /\ (i = 1 \/ kv[2].parent_id = current_id))
             ends == [j \in 1..Len(matches) |->
                         Traverse_Backtrack(d, parts, i + 1, obj_type, matches[j][1])]
             found == SelectSeq(ends, LAMBDA e : Truthy(e))
         IN  IF found # <<>> THEN found[1] ELSE PyNone

\* mutant of Traverse: only the last segment is looked up in the requested
\* kind, the segments before it among the pages and then the databases
RECURSIVE Traverse_ParentAnyKind(_, _, _, _, _)
Traverse_ParentAnyKind(d, parts, i, obj_type, current_id) ==
    IF i > Len(parts) THEN current_id
    ELSE LET parent_id == IF i = 1 THEN PyNone ELSE current_id
             asPage == FindByTitle(d, parts[i], "page", parent_id)
             found == IF i = Len(parts) THEN FindByTitle(d, parts[i], obj_type, parent_id)
                      ELSE IF Truthy(asPage) THEN asPage
                      ELSE FindByTitle(d, parts[i], "database", parent_id)
         IN  IF ~Truthy(found) THEN PyNone
             ELSE Traverse_ParentAnyKind(d, parts, i + 1, obj_type, found)

\* lines 186-198: the loop over the parts from index i on
RECURSIVE Traverse(_, _, _, _, _)
Traverse(d, parts, i, obj_type, current_id) ==
    IF i > Len(parts) THEN current_id
    ELSE LET found == IF i = 1
                      THEN FindByTitle(d, parts[i], obj_type, PyNone)
                      ELSE FindByTitle(d, parts[i], obj_type, current_id)
         IN  IF ~Truthy(found) THEN PyNone
             ELSE Traverse(d, parts, i + 1, obj_type, found)

\* mutant of FindByPath: the segments are not stripped
FindByPath_NoStrip(d, path, obj_type) ==
    LET parts == Split(path)
    IN  IF Len(parts) = 1 THEN FindByTitle(d, parts[1], obj_type, PyNone)
        ELSE Traverse(d, parts, 1, obj_type, PyNone)

\* mutant of FindByPath: a path not found under the requested kind is looked
\* up under the other kind
FindByPath_EitherKind(d, path, obj_type) ==
    LET split == Split(path)
        parts == [i \in 1..Len(split) |-> Strip(split[i])]
        other == IF obj_type = "page" THEN "database" ELSE "page"
        found == IF Len(parts) = 1 THEN FindByTitle(d, parts[1], obj_type, PyNone)
                 ELSE Traverse(d, parts, 1, obj_type, PyNone)
    IN  IF Truthy(found) THEN found
        ELSE IF Len(parts) = 1 THEN FindByTitle(d, parts[1], other, PyNone)
        ELSE Traverse(d, parts, 1, other, PyNone)

\* NotionCache.find_by_path
FindByPath(d, path, obj_type) ==
    LET split == Split(path)
        parts == [i \in 1..Len(split) |-> Strip(split[i])]
    IN  IF Len(parts) = 1 THEN FindByTitle(d, parts[1], obj_type, PyNone)
        ELSE Traverse(d, parts, 1, obj_type, PyNone)

\* _find_by_title raises: item["title"] on an entry that has none
\* (KeyError); the loop visits every entry of the collection
FindByTitleRaises(d, obj_type) ==
    LET collection == Get(d, IF obj_type = "page" THEN "pages" ELSE "databases", <<>>)
    IN  \E i \in 1..Len(collection) : "title" \notin DOMAIN collection[i][2]

\* find_by_path raises: its first _find_by_title call does
FindByPathRaises(d, path, obj_type) == FindByTitleRaises(d, obj_type)

\* mutant of GetTitle: the collections are tried in the other order
GetTitle_DatabasesFirst(d, item_id) ==
    IF DictHas(Get(d, "databases", <<>>), item_id)
    THEN DictGet(d.databases, item_id).title
    ELSE IF DictHas(Get(d, "pages", <<>>), item_id)
    THEN DictGet(d.pages, item_id).title
    ELSE PyNone

\* NotionCache.get_title (for entries that have a title)
GetTitle(d, item_id) ==
    IF DictHas(Get(d, "pages", <<>>), item_id)
    THEN DictGet(d.pages, item_id).title
    ELSE IF DictHas(Get(d, "databases", <<>>), item_id)
    THEN DictGet(d.databases, item_id).title
    ELSE PyNone

\* get_title raises: the first collection that holds item_id holds it
\* without a title (KeyError)
GetTitleRaises(d, item_id) ==
    IF DictHas(Get(d, "pages", <<>>), item_id)
    THEN "title" \notin DOMAIN DictGet(d.pages, item_id)
    ELSE /\ DictHas(Get(d, "databases", <<>>), item_id)
         /\ "title" \notin DOMAIN DictGet(d.databases, item_id)

-----------------------------------------------------------------------------
(* is_uuid *)

UuidLength == 32
HexDigits == {"0", "1", "2", "3", "4", "5", "6", "7", "8", "9",
              "a", "b", "c", "d", "e", "f"}

\* mutant of IsUuid: the value is not lowered before the test
IsUuid_CaseSensitive(value) ==
    LET cleaned == Remove(value, "-")
    IN  /\ Len(cleaned) = UuidLength
        /\ \A i \in 1..Len(cleaned) : cleaned[i] \in HexDigits

\* is_uuid
IsUuid(value) ==
    LET cleaned == Remove(value, "-")
    IN  /\ Len(cleaned) = UuidLength
        /\ \A i \in 1..Len(cleaned) : LowerChar(cleaned[i]) \in HexDigits

-----------------------------------------------------------------------------
(* resolve_id *)

\* name_or_id.split("/")[-1]
LastSegment(n) == Split(n)[Len(Split(n))]

\* mutant of ResolveLookup: the search is issued although the cache has the path
ResolveLookup_AlwaysSearch(d, n, k) ==
    IF IsUuid(n)
    THEN [pc |-> "returned", returned |-> PyStr(n), lookups |-> 0, searches |-> 0,
          query |-> <<>>]
    ELSE [pc |-> "searching", returned |-> PyNone, lookups |-> 1, searches |-> 1,
          query |-> <<LastSegment(n), k>>]

\* mutant of ResolveLookup: a stale cache is not trusted, the search is issued
\* although the cache may hold the name
ResolveLookup_StaleSearch(d, n, k) ==
    IF IsUuid(n)
    THEN [pc |-> "returned", returned |-> PyStr(n), lookups |-> 0, searches |-> 0,
          query |-> <<>>]
    ELSE LET resolved_id == FindByPath(d, n, k)
         IN  IF Truthy(resolved_id) /\ ~IsStale(d, now)
             THEN [pc |-> "returned", returned |-> resolved_id, lookups |-> 1,
                   searches |-> 0, query |-> <<>>]
             ELSE [pc |-> "searching", returned |-> PyNone, lookups |-> 1,
                   searches |-> 1, query |-> <<LastSegment(n), k>>]

\* resolve_id, lines 725-736: up to the search call.  pc is where the call
\* stands then, query the arguments of the search it has issued (if any)
ResolveLookup(d, n, k) ==
    IF IsUuid(n)
    THEN [pc |-> "returned", returned |-> PyStr(n), lookups |-> 0, searches |-> 0,
          query |-> <<>>]
    ELSE LET resolved_id == FindByPath(d, n, k)
         IN  IF Truthy(resolved_id)
             THEN [pc |-> "returned", returned |-> resolved_id, lookups |-> 1,
                   searches |-> 0, query |-> <<>>]
             ELSE [pc |-> "searching", returned |-> PyNone, lookups |-> 1,
                   searches |-> 1, query |-> <<LastSegment(n), k>>]

\* mutant of ResolveFallback: an empty result list is merged like any other
ResolveFallback_MergeEmpty(d, n, k, results, t) ==
    LET merged == UpdateFromSearch(d, results, t)
        resolved_id == FindByPath(merged, n, k)
    IN  IF Truthy(resolved_id)
        THEN [data |-> merged, saved |-> TRUE, pc |-> "returned",
              returned |-> resolved_id, failure |-> <<>>, lookups |-> 1]
        ELSE [data |-> merged, saved |-> TRUE, pc |-> "failed",
              returned |-> PyNone, failure |-> <<k, n>>, lookups |-> 1]

\* mutant of ResolveFallback: the retry looks up the query, not the whole path
ResolveFallback_RetryQuery(d, n, k, results, t) ==
    IF results # <<>>
    THEN LET merged == UpdateFromSearch(d, results, t)
             resolved_id == FindByPath(merged, LastSegment(n), k)
         IN  IF Truthy(resolved_id)
             THEN [data |-> merged, saved |-> TRUE, pc |-> "returned",
                   returned |-> resolved_id, failure |-> <<>>, lookups |-> 1]
             ELSE [data |-> merged, saved |-> TRUE, pc |-> "failed",
                   returned |-> PyNone, failure |-> <<k, n>>, lookups |-> 1]
    ELSE [data |-> d, saved |-> FALSE, pc |-> "failed",
          returned |-> PyNone, failure |-> <<k, n>>, lookups |-> 0]

\* resolve_id, lines 738-744: from the return of the search on.  saved tells
\* whether update_from_search ran (and wrote the file), lookups counts the
\* find_by_path calls made here
ResolveFallback(d, n, k, results, t) ==
    IF results # <<>>
    THEN LET merged == UpdateFromSearch(d, results, t)
             resolved_id == FindByPath(merged, n, k)
         IN  IF Truthy(resolved_id)
             THEN [data |-> merged, saved |-> TRUE, pc |-> "returned",
                   returned |-> resolved_id, failure |-> <<>>, lookups |-> 1]
             ELSE [data |-> merged, saved |-> TRUE, pc |-> "failed",
                   returned |-> PyNone, failure |-> <<k, n>>, lookups |-> 1]
    ELSE [data |-> d, saved |-> FALSE, pc |-> "failed",
          returned |-> PyNone, failure |-> <<k, n>>, lookups |-> 0]

-----------------------------------------------------------------------------
(* Inputs: identifiers, search results, names *)

MaxResults == 2    \* longest result list a search hands back
MaxTime == 26      \* last hour the clock reaches
MaxPages == 3      \* the remote has no more than this many pages of results

IdA == Rep("a", 32)
IdB == Rep("b", 8) \o <<"-">> \o Rep("b", 4) \o <<"-">> \o Rep("b", 4) \o <<"-">>
       \o Rep("b", 4) \o <<"-">> \o Rep("b", 12)
IdC == Rep("c", 32)

\* identifiers as the tests write them
P1 == <<"p", "1">>
P2 == <<"p", "2">>
P3 == <<"p", "3">>

WorkspaceParent == [page_id |-> PyNone, database_id |-> PyNone, workspace |-> PyTrue]
PageParent(i) == [page_id |-> PyStr(i), database_id |-> PyNone, workspace |-> PyNone]

Url == PyStr(<<"u">>)

\* a page result whose properties hold the title array arr under "title"
Page(i, arr, parent) ==
    [object |-> "page", id |-> PyStr(i), props_title |-> PyDict(arr),
     props_Name |-> PyNone, title |-> PyNone, parent |-> parent, url |-> Url,
     archived |-> PyFalse]

\* a database result with the title array arr
Database(i, arr, parent) ==
    [object |-> "database", id |-> PyStr(i), props_title |-> PyNone,
     props_Name |-> PyNone, title |-> PyList(arr), parent |-> parent, url |-> Url,
     archived |-> PyFalse]

Text(s) == <<PyStr(s)>>

\* all lists of at most n results drawn from S
ResultLists(S, n) == UNION {[1..m -> S] : m \in 0..n}

\* the remote objects the resolver's searches report: page P at the top,
\* page N inside it, database N at the top
RemoteObjects ==
    {Page(IdA, Text(<<"P">>), WorkspaceParent),
     Page(IdB, Text(<<"N">>), PageParent(IdA)),
     Database(IdC, Text(<<"N">>), WorkspaceParent)}

Kinds == {"page", "database"}

Names ==
    {<<"N">>, <<"P", "/", "N">>, <<"X", "/", "n">>,
     IdA, IdB, Rep("A", 32), Rep("a", 31), Rep("g", 32)}

-----------------------------------------------------------------------------
(* The state machine *)

NoSnapshot == <<EmptyCache, NoFile>>

\* the second invocation before it has started
NoPeer == [pc |-> "off", data |-> EmptyCache]

\* no pagination loop is running.  Of a running loop: op is the function
\* that runs it, fetch_all the --all flag (search_notion has none and always
\* follows the cursor), start_cursor, has_more and all_results are the
\* loop's variables, sent lists the start_cursor of every request posted
\* (PyNone: the body has none) and received every response, in order
NoPager ==
    [pc |-> "idle", op |-> "none", fetch_all |-> TRUE, start_cursor |-> PyNone,
     has_more |-> TRUE, all_results |-> <<>>, sent |-> <<>>, received |-> <<>>]

Idle(p) ==
    /\ pc' = p
    /\ name' = <<>>
    /\ kind' = "none"
    /\ returned' = PyNone
    /\ failure' = <<>>
    /\ query' = <<>>
    /\ searches' = 0
    /\ lookups' = 0
    /\ got' = <<>>
    /\ before' = NoSnapshot

Init ==
    /\ data = EmptyCache
    /\ file = NoFile
    /\ dirExists \in BOOLEAN
    /\ now = 0
    /\ raised = FALSE
    /\ pc = "off"
    /\ name = <<>>
    /\ kind = "none"
    /\ returned = PyNone
    /\ failure = <<>>
    /\ query = <<>>
    /\ searches = 0
    /\ lookups = 0
    /\ got = <<>>
    /\ before = NoSnapshot
    /\ updatedAt = -1
    /\ peer = NoPeer
    /\ pager = NoPager

\* self.cache_path.parent.mkdir(parents=True, exist_ok=True): whether the
\* directory exists afterwards
Mkdir(dir) == TRUE

\* NotionCache.__init__ at the start of an invocation
Construct ==
    /\ pc = "off"
    /\ dirExists' = Mkdir(dirExists)
    /\ \E loaded \in {Load(file)} :
          /\ data' = loaded.val
          /\ raised' = loaded.exc
    /\ Idle("ready")
    /\ UNCHANGED <<peer, pager, file, now, updatedAt>>

\* the invocation ends; its memory is gone
Exit ==
    /\ pc \in {"ready", "refreshed", "returned", "failed", "listed"}
    /\ data' = EmptyCache
    /\ raised' = FALSE
    /\ Idle("off")
    /\ UNCHANGED <<peer, pager, file, dirExists, now, updatedAt>>

\* update_from_search(results), as refresh_cache and list call it with the
\* results of an unfiltered search
Refresh(S) ==
    /\ pc \in {"ready", "refreshed", "returned"}
    /\ \E results \in ResultLists(S, MaxResults) :
          data' = UpdateFromSearch(data, results, now)
    /\ got' = <<>>
    /\ raised' = SaveRaises(dirExists)
    /\ file' = IF raised' THEN file ELSE Save(data')
    /\ before' = NoSnapshot
    /\ updatedAt' = now
    /\ pc' = "refreshed"
    /\ name' = <<>>
    /\ kind' = "none"
    /\ returned' = PyNone
    /\ failure' = <<>>
    /\ query' = <<>>
    /\ searches' = 1
    /\ lookups' = 0
    /\ UNCHANGED <<peer, pager, dirExists, now>>

\* resolve_id(cache, n, k, api_key) up to its return or its search call, for
\* a name of N
ResolveIn(N) ==
    /\ pc \in {"ready", "refreshed", "returned"}
    /\ \E n \in N, k \in Kinds :
          \E r \in {ResolveLookup(data, n, k)} :
              /\ name' = n
              /\ kind' = k
              /\ pc' = r.pc
              /\ returned' = r.returned
              /\ lookups' = r.lookups
              /\ searches' = r.searches
              /\ query' = r.query
    /\ failure' = <<>>
    /\ got' = <<>>
    /\ before' = <<data, file>>
    /\ UNCHANGED <<peer, pager, data, file, dirExists, now, raised, updatedAt>>

Resolve == ResolveIn(Names)

\* the search issued by resolve_id hands back its results, objects of S, and
\* resolve_id runs to its end
SearchReturnFrom(S) ==
    /\ pc = "searching"
    /\ \E results \in ResultLists(S, MaxResults) :
          \E r \in {ResolveFallback(data, name, kind, results, now)} :
              /\ got' = results
              /\ data' = r.data
              /\ raised' = (r.saved /\ SaveRaises(dirExists))
              /\ file' = IF r.saved /\ ~raised' THEN Save(r.data) ELSE file
              /\ updatedAt' = IF r.saved THEN now ELSE updatedAt
              /\ pc' = r.pc
              /\ returned' = r.returned
              /\ failure' = r.failure
              /\ lookups' = lookups + r.lookups
    /\ UNCHANGED <<peer, pager, dirExists, now, name, kind, query, searches, before>>

SearchReturn == SearchReturnFrom(RemoteObjects)

\* an hour passes
Tick ==
    /\ now < MaxTime
    /\ now' = now + 1
    /\ UNCHANGED <<peer, pager, data, file, dirExists, raised, pc, name, kind, returned, failure,
                   query, searches, lookups, got, before, updatedAt>>

\* The resolver: invocations that construct the cache and resolve names
Next == Construct \/ Resolve \/ SearchReturn \/ Exit

Spec == Init /\ [][Next]_vars

-----------------------------------------------------------------------------
(* Claims about resolve_id, checked under Spec *)

\* a resolve_id call has been made by the running invocation
Resolving == name # <<>>

\* the cache as it was when the call started, and the lookup made on it
CacheBefore == before[1]
FileBefore == before[2]

HexEitherCase == HexDigits \cup {"A", "B", "C", "D", "E", "F"}

\* n holds exactly 32 hexadecimal characters, of either case, and besides
\* them only hyphens
LooksLikeId(n) ==
    /\ Cardinality({i \in 1..Len(n) : n[i] # "-"}) = UuidLength
    /\ \A i \in 1..Len(n) : n[i] = "-" \/ n[i] \in HexEitherCase

\* the text after the last "/" of n (all of n when it has none)
AfterLastSlash(n) ==
    LET slashes == {i \in 1..Len(n) : n[i] = "/"}
    IN  IF slashes = {} THEN n
        ELSE SubSeq(n, (CHOOSE i \in slashes : \A j \in slashes : j <= i) + 1, Len(n))

\* C1: within one resolve call the search is issued at most once, and only
\* after find_by_path has been tried on the cache and has missed; a call that
\* the cache answers returns with no search; the not-found failure comes only
\* after that one search has handed back its results, and no second search
\* follows it.
C1_SearchOnlyAfterMiss ==
    Resolving =>
        /\ searches <= 1
        /\ searches = 1 =>
              /\ lookups >= 1
              /\ ~LooksLikeId(name)
              /\ ~Truthy(FindByPath(CacheBefore, name, kind))
        /\ (~LooksLikeId(name) /\ Truthy(FindByPath(CacheBefore, name, kind))) =>
              /\ pc = "returned"
              /\ searches = 0
              /\ returned = FindByPath(CacheBefore, name, kind)
        /\ pc = "failed" => (searches = 1 /\ query # <<>>)
        /\ pc = "searching" => searches = 1

\* C1 witness: a call that failed after its one search, which had handed
\* back results
C1_Witness ==
    /\ pc = "failed"
    /\ searches = 1
    /\ got # <<>>

\* C2: a name of exactly 32 hexadecimal characters (either case) apart from
\* hyphens is returned unchanged, with no cache lookup, no search and no
\* change to the cache in memory or in the file, cached or not; any other
\* name goes through the cache lookup.
C2_IdentifierFastPath ==
    Resolving =>
        /\ LooksLikeId(name) =>
              /\ pc = "returned"
              /\ returned = PyStr(name)
              /\ lookups = 0
              /\ searches = 0
              /\ data = CacheBefore
              /\ file = FileBefore
        /\ ~LooksLikeId(name) => lookups >= 1

\* C2 witness: an upper-case identifier was returned as given while the
\* cache holds entries
C2_Witness ==
    /\ name = Rep("A", 32)
    /\ returned = PyStr(name)
    /\ lookups = 0
    /\ data.pages # <<>>

\* C3: after a miss the search is called with the text after the last "/"
\* as query and the kind as filter; a non-empty result list is merged with
\* update_from_search and written to the file, find_by_path is then retried
\* on the whole original name, and what the retry finds is returned.
C3_FallbackSearch ==
    (Resolving /\ searches = 1) =>
        /\ query = <<AfterLastSlash(name), kind>>
        /\ (pc # "searching" /\ got # <<>>) =>
              /\ data = UpdateFromSearch(CacheBefore, got, updatedAt)
              /\ file = Save(data)
              /\ lookups = 2
              /\ Truthy(FindByPath(data, name, kind)) => pc = "returned"
              /\ pc = "returned" => returned = FindByPath(data, name, kind)

\* C3 witness: the path P/N missed, the search brought both pages, and the
\* retry returned the child
C3_Witness ==
    /\ name = <<"P", "/", "N">>
    /\ searches = 1
    /\ pc = "returned"
    /\ returned = PyStr(IdB)

\* C4: a name found neither in the cache nor after the search fails with
\* the not-found error naming the name and the kind; when the search handed
\* back nothing, the cache in memory and the file are as before the call.
C4_NotFound ==
    Resolving =>
        /\ (pc \in {"returned", "failed"} /\ searches = 1
               /\ ~Truthy(FindByPath(data, name, kind))) =>
              /\ pc = "failed"
              /\ failure = <<kind, name>>
              /\ returned = PyNone
        /\ pc = "failed" =>
              /\ ~Truthy(FindByPath(CacheBefore, name, kind))
              /\ ~Truthy(FindByPath(data, name, kind))
              /\ failure = <<kind, name>>
        /\ (pc = "failed" /\ got = <<>>) =>
              /\ data = CacheBefore
              /\ file = FileBefore
              /\ ~raised

\* C4 witness: a failure after an empty search on a cache that holds entries
\* and was never given a full result list
C4_Witness ==
    /\ pc = "failed"
    /\ got = <<>>
    /\ data.pages # <<>>
    /\ data = CacheBefore

-----------------------------------------------------------------------------
(* The cache under refreshes: invocations that construct the cache and     *)
(* merge result lists into it.                                             *)

\* page p1 titled N or N/n and page p2 titled n or " N" at the top of the
\* workspace, page p2 titled N inside page p1, and a database titled N
CacheItems ==
    {Page(P1, Text(<<"N">>), WorkspaceParent),
     Page(P1, Text(<<"N", "/", "n">>), WorkspaceParent),
     Page(P2, Text(<<"n">>), WorkspaceParent),
     Page(P2, Text(<<" ", "N">>), WorkspaceParent),
     Page(P2, Text(<<"N">>), PageParent(P1)),
     Database(P1, Text(<<"N">>), WorkspaceParent)}

NextCache == Construct \/ Refresh(CacheItems) \/ Exit

SpecCache == Init /\ [][NextCache]_vars

Running == pc \in {"ready", "refreshed"}
SomeResults == ResultLists(CacheItems, MaxResults)

\* what the claims call content: an entry without its last_seen
Content(entry) ==
    <<entry.id, entry.title, entry.parent_id, entry.url, entry.archived>>
ContentOf(collection) ==
    {<<collection[i][1], Content(collection[i][2])>> : i \in 1..Len(collection)}

\* r's parent is the workspace
RootLevel(r) == r.parent.workspace = PyTrue /\ ExtractParent(r) = PyTrue

\* the title and kind a result is looked up by
TitleOf(r) == ExtractTitle(r)[2]

\* C5 as stated: after update_from_search(R), every root-level r of R is
\* found under its title and kind.
C5_Original ==
    Running =>
        \A R \in SomeResults :
            \A i \in 1..Len(R) :
                RootLevel(R[i]) =>
                    FindByPath(UpdateFromSearch(data, R, now), TitleOf(R[i]), R[i].object)
                        = R[i].id

\* t has no "/" and no white space at either end
PlainTitle(t) ==
    /\ \A i \in 1..Len(t) : t[i] # "/"
    /\ t # <<>> => (t[1] \notin Whitespace /\ t[Len(t)] \notin Whitespace)

\* the first position of the collection whose title is t, case ignored
\* (0 when there is none)
FirstTitled(collection, t) ==
    LET hits == {i \in 1..Len(collection) : Lower(collection[i][2].title[2]) = Lower(t)}
    IN  IF hits = {} THEN 0 ELSE CHOOSE i \in hits : \A j \in hits : i <= j

CollectionOf(c, k) == IF k = "page" THEN c.pages ELSE c.databases

\* C5 amended: after update_from_search(R), for every root-level r of R that
\* no later result of R replaces (same identifier and kind) and whose title
\* has no "/" and no surrounding white space, find_by_path(title(r),
\* kind(r)) returns the identifier of the first entry of that kind, in
\* insertion order, whose title equals title(r) with case ignored; it is
\* id(r) exactly when r's entry is that first one.
C5_FirstMatchFound ==
    Running =>
        \A R \in SomeResults :
            \E c \in {UpdateFromSearch(data, R, now)} :
                \A i \in 1..Len(R) :
                    (/\ RootLevel(R[i])
                     /\ PlainTitle(TitleOf(R[i]))
                     /\ \A j \in (i + 1)..Len(R) :
                           ~(R[j].id = R[i].id /\ R[j].object = R[i].object))
                    => \E coll \in {CollectionOf(c, R[i].object)} :
                          \E first \in {FirstTitled(coll, TitleOf(R[i]))} :
                              /\ first > 0
                              /\ FindByPath(c, TitleOf(R[i]), R[i].object) = coll[first][1]
                              /\ (coll[first][1] = R[i].id
                                    <=> first = DictIndex(coll, R[i].id))

\* C5 witness: two top-level pages whose titles differ only in case are
\* cached, and the title of the second resolves to the first
C5_Witness ==
    /\ pc = "refreshed"
    /\ Len(data.pages) = 2
    /\ data.pages[1][2].title = PyStr(<<"N">>)
    /\ data.pages[2][2].title = PyStr(<<"n">>)
    /\ data.pages[2][2].parent_id = PyTrue
    /\ FindByPath(data, <<"n">>, "page") = data.pages[1][1]

\* two caches hold the same content: the same identifiers with the same
\* title, parent, url and archived flag in pages and in databases, and the
\* same hierarchy index
SameContent(c1, c2) ==
    /\ ContentOf(c1.pages) = ContentOf(c2.pages)
    /\ ContentOf(c1.databases) = ContentOf(c2.databases)
    /\ DictEq(c1.hierarchy, c2.hierarchy)

\* C6: applying a result list a second time (an hour later, so that only
\* the time stamps can differ) leaves the content of the cache as the first
\* application left it.  Checked on the caches of SpecTree, below.
C6_Idempotent ==
    Running =>
        \A R \in SomeResults :
            \E once \in {UpdateFromSearch(data, R, now)} :
                SameContent(UpdateFromSearch(once, R, now + 1), once)

\* C6 witness: a refreshed cache that already holds a child in the index,
\* to which a list of two results for that child is applied again
C6_Witness ==
    /\ pc = "refreshed"
    /\ DictHas(data.hierarchy, PyStr(P1))
    /\ \E R \in SomeResults :
          /\ Len(R) = 2
          /\ R[1] = R[2]
          /\ ExtractParent(R[1]) = PyStr(P1)
          /\ UpdateFromSearch(data, R, now) = data

\* two caches are equal as Python compares self.data
CacheEq(c1, c2) ==
    /\ DictEq(c1.pages, c2.pages)
    /\ DictEq(c1.databases, c2.databases)
    /\ DictEq(c1.hierarchy, c2.hierarchy)
    /\ c1.last_refresh = c2.last_refresh

\* C9: the state update_from_search leaves, saved and loaded by a fresh
\* cache from the same path, is reproduced: the same pages, databases,
\* hierarchy keys and lists, and last_refresh.
C9_RoundTrip ==
    pc = "refreshed" =>
        /\ file = Save(data)
        /\ ~Load(file).exc
        /\ CacheEq(Load(file).val, data)

\* the positions of the collection that hold identifier id
Holding(coll, id) == {n \in 1..Len(coll) : coll[n][1] = id}

\* C23: get_title returns the title of the page entry when pages has the
\* identifier, whether or not databases has it too; otherwise the title of
\* the database entry when databases has it; and None when neither has it.
C23_PageTitleFirst ==
    Running =>
        \A id \in {PyStr(P1), PyStr(P2), PyStr(IdA)} :
            \E t \in {GetTitle(data, id)} :
                /\ \A n \in Holding(data.pages, id) : t = data.pages[n][2].title
                /\ Holding(data.pages, id) = {} =>
                      \A n \in Holding(data.databases, id) : t = data.databases[n][2].title
                /\ (Holding(data.pages, id) = {} /\ Holding(data.databases, id) = {}) =>
                      t = PyNone

\* C23 witness: p1 is cached as a page titled N/n and as a database titled
\* N, and get_title gives the page's title; p2 is not cached
C23_Witness ==
    /\ pc = "refreshed"
    /\ Holding(data.pages, PyStr(P1)) # {}
    /\ Holding(data.databases, PyStr(P1)) # {}
    /\ DictGet(data.databases, PyStr(P1)).title = PyStr(<<"N">>)
    /\ GetTitle(data, PyStr(P1)) = PyStr(<<"N", "/", "n">>)
    /\ GetTitle(data, PyStr(P2)) = PyNone

-----------------------------------------------------------------------------
(* Staleness: invocations that refresh the cache while the clock runs *)

\* page A at the top of the workspace
OneItem == {Page(IdA, Text(<<"P">>), WorkspaceParent)}

NextStale == Construct \/ Refresh(OneItem) \/ Exit \/ Tick

SpecStale == Init /\ [][NextStale]_vars

\* hours since update_from_search last returned
Elapsed == now - updatedAt

\* C7: is_stale() is true while the cache was never refreshed, false when
\* update_from_search has just returned and as long as less than 24 hours
\* have passed since, and true once more than 24 hours have passed; this
\* holds as well for an invocation that loaded the cache from the file.
C7_StaleAfterTtl ==
    Running =>
        /\ updatedAt = -1 => (data.last_refresh = PyNone /\ IsStale(data, now))
        /\ (pc = "refreshed" /\ Elapsed = 0) => ~IsStale(data, now)
        /\ (updatedAt >= 0 /\ Elapsed < 24) => ~IsStale(data, now)
        /\ (updatedAt >= 0 /\ Elapsed > 24) => IsStale(data, now)

\* C7 witness: an invocation that loaded a cache refreshed more than 24
\* hours ago finds it stale
C7_Witness ==
    /\ pc = "ready"
    /\ updatedAt >= 0
    /\ Elapsed > 24
    /\ IsStale(data, now)

\* C8: when exactly 24 hours have passed since last_refresh, is_stale() is
\* true.
C8_StaleAtThreshold ==
    (Running /\ updatedAt >= 0 /\ Elapsed = CACHE_TTL_HOURS) => IsStale(data, now)

-----------------------------------------------------------------------------
(* Loading: the cache file is damaged or removed between invocations *)

\* between two invocations the file is emptied, cut short, overwritten with
\* something that is not JSON, or removed
Damage ==
    /\ pc = "off"
    /\ dirExists
    /\ \E k \in {"empty", "truncated", "invalid", "missing"} :
          file' = IF k = "missing" THEN NoFile ELSE [file EXCEPT !.kind = k]
    /\ updatedAt' = -1
    /\ UNCHANGED <<peer, pager, data, dirExists, now, raised, pc, name, kind, returned, failure,
                   query, searches, lookups, got, before>>

NextLoad == Construct \/ Refresh(RemoteObjects) \/ Exit \/ Damage

SpecLoad == Init /\ [][NextLoad]_vars

\* C10: constructing the cache on a file that is missing, empty, cut short
\* or not JSON raises nothing and leaves the default empty structure in
\* memory; the directory exists from then on, and the save of a later
\* update_from_search succeeds.
C10_ConstructNeverRaises ==
    /\ ~raised
    /\ pc # "off" => dirExists
    /\ (pc = "ready" /\ file.kind # "json") => data = EmptyCache
    /\ pc = "refreshed" => file = Save(data)

\* C10 witness: a cache was constructed on a file cut short
C10_Witness ==
    /\ pc = "ready"
    /\ file.kind = "truncated"
    /\ data = EmptyCache
    /\ dirExists

-----------------------------------------------------------------------------
(* Foreign files: between invocations the cache file is replaced by        *)
(* well-formed JSON that this program would not have written, and the next *)
(* invocation calls the operations of the cache on what it loaded.         *)

\* a last_refresh that is a string but no date
NotADate == PyStr(<<"x">>)

\* {"last_refresh": null}: an object without pages, databases, hierarchy;
\* a cache whose last_refresh is no date; a cache whose one page has no
\* title
ForeignDocs ==
    {[last_refresh |-> PyNone],
     [EmptyCache EXCEPT !.last_refresh = NotADate],
     [EmptyCache EXCEPT !.pages = <<<<PyStr(P1), [id |-> PyStr(P1)]>>>>]}

Foreign ==
    /\ pc = "off"
    /\ dirExists
    /\ \E doc \in ForeignDocs : file' = [kind |-> "json", doc |-> doc]
    /\ updatedAt' = -1
    /\ UNCHANGED <<peer, pager, data, dirExists, now, raised, pc, name, kind, returned, failure,
                   query, searches, lookups, got, before>>

\* an exception escapes the command: the invocation ends with a traceback
Crash ==
    /\ raised' = TRUE
    /\ data' = EmptyCache
    /\ Idle("off")
    /\ UNCHANGED <<peer, pager, file, dirExists, now, updatedAt>>

\* a cache operation that changes nothing returns v
Answer(n, k, v) ==
    /\ pc' = "returned"
    /\ name' = n
    /\ kind' = k
    /\ returned' = v
    /\ failure' = <<>>
    /\ query' = <<>>
    /\ searches' = 0
    /\ lookups' = 0
    /\ got' = <<>>
    /\ before' = NoSnapshot
    /\ UNCHANGED <<peer, pager, data, file, dirExists, now, raised, updatedAt>>

\* cache.is_stale()
IsStaleCall ==
    /\ pc \in {"ready", "refreshed", "returned"}
    /\ IF IsStaleRaises(data) THEN Crash
       ELSE Answer(<<>>, "none", IF IsStale(data, now) THEN PyTrue ELSE PyFalse)

\* cache.find_by_path(path, obj_type)
FindCall ==
    /\ pc \in {"ready", "refreshed", "returned"}
    /\ \E path \in {<<"N">>, <<"P", "/", "N">>}, k \in Kinds :
          IF FindByPathRaises(data, path, k) THEN Crash
          ELSE Answer(path, k, FindByPath(data, path, k))

\* cache.get_title(item_id)
GetTitleCall ==
    /\ pc \in {"ready", "refreshed", "returned"}
    /\ \E i \in {P1, IdA} :
          IF GetTitleRaises(data, PyStr(i)) THEN Crash
          ELSE Answer(i, "none", GetTitle(data, PyStr(i)))

\* cache.update_from_search(results)
UpdateCall ==
    /\ pc \in {"ready", "refreshed", "returned"}
    /\ \E results \in ResultLists(RemoteObjects, MaxResults) :
          IF UpdateRaises(data, results) THEN Crash
          ELSE /\ data' = UpdateAnyShape(data, results, now)
               /\ raised' = SaveRaises(dirExists)
               /\ file' = IF raised' THEN file ELSE Save(data')
               /\ updatedAt' = now
               /\ Idle("refreshed")
               /\ UNCHANGED <<peer, pager, dirExists, now>>

NextShape ==
    Construct \/ Exit \/ Foreign \/ IsStaleCall \/ FindCall \/ GetTitleCall \/ UpdateCall

SpecShape == Init /\ [][NextShape]_vars

\* C11: whatever well-formed JSON the file holds, no operation of the cache
\* (is_stale, update_from_search, find_by_path, get_title) called after
\* loading it lets an exception escape.
C11_NeverThrows == ~raised

-----------------------------------------------------------------------------
(* The tree of pages: invocations that merge results which name the same   *)
(* objects under different parents, titles and kinds.                      *)

\* page p1 titled N at the top of the workspace; page p2 titled N inside
\* page p1, or titled n at the top; a database that has the identifier p1
TreeItems ==
    {Page(P1, Text(<<"N">>), WorkspaceParent),
     Page(P2, Text(<<"N">>), PageParent(P1)),
     Page(P2, Text(<<"n">>), WorkspaceParent),
     Database(P1, Text(<<"N">>), WorkspaceParent)}

NextTree == Construct \/ Refresh(TreeItems) \/ Exit

SpecTree == Init /\ [][NextTree]_vars

TreeResults == ResultLists(TreeItems, MaxResults)

\* the paths looked up: a title, a title that is not cached, and paths of
\* two segments
TreePaths ==
    {<<"N">>, <<"X">>, <<"N", "/", "N">>, <<"N", "/", "X">>, <<"X", "/", "N">>}

\* parts = [p.strip() for p in path.split("/")]
Parts(path) == [i \in 1..Len(Split(path)) |-> Strip(Split(path)[i])]

\* the identifier the loop of find_by_path holds after the first segment
SegmentZero(d, path, k) == Traverse(d, SubSeq(Parts(path), 1, 1), 1, k, PyNone)

\* the entry's parent_id is the identifier of a parent (not None, not the
\* workspace)
HasRealParent(entry) ==
    /\ entry.parent_id[1] = "str"
    /\ entry.parent_id # WorkspaceLiteral

\* C12: in a path of several segments the first segment never selects an
\* entry whose parent_id is a real parent identifier.
C12_FirstSegmentIsRoot ==
    Running =>
        \A path \in TreePaths, k \in Kinds :
            (Len(Parts(path)) > 1 /\ Truthy(SegmentZero(data, path, k))) =>
                ~HasRealParent(DictGet(CollectionOf(data, k), SegmentZero(data, path, k)))

\* the children listed under p in the hierarchy index
ChildrenOf(d, p) ==
    IF DictHas(d.hierarchy, p)
    THEN {DictGet(d.hierarchy, p)[i] : i \in 1..Len(DictGet(d.hierarchy, p))}
    ELSE {}

\* C13: for a result whose parent is the workspace, update_from_search
\* records parent_id None and leaves the hierarchy index as it was: no new
\* key, no new child.
C13_WorkspaceIsNoParent ==
    Running =>
        \A r \in TreeItems :
            r.parent = WorkspaceParent =>
                \E c \in {UpdateFromSearch(data, <<r>>, now)} :
                    /\ DictGet(CollectionOf(c, r.object), r.id).parent_id = PyNone
                    /\ DictKeys(c.hierarchy) = DictKeys(data.hierarchy)
                    /\ \A p \in DictKeys(c.hierarchy) :
                          ChildrenOf(c, p) = ChildrenOf(data, p)

\* the entries cached, of either kind
Entries(d) ==
    {d.pages[i][2] : i \in 1..Len(d.pages)}
        \cup {d.databases[i][2] : i \in 1..Len(d.databases)}

\* the identifiers the results use
TreeIds == {PyStr(P1), PyStr(P2)}

\* C14: for every parent identifier p, hierarchy[p] contains c if and only
\* if some cached entry with identifier c has parent_id p, also after an
\* object was seen again under another parent.
C14_HierarchyMatchesParents ==
    Running =>
        \A p \in TreeIds :
            ChildrenOf(data, p) = {e.id : e \in {x \in Entries(data) : x.parent_id = p}}

\* C15: no identifier is a key of both pages and databases.
C15_OneKindPerId ==
    Running => DictKeys(data.pages) \cap DictKeys(data.databases) = {}

\* the positions of the collection whose entry has title t, case ignored,
\* and, unless p is None, parent_id p
Matching(coll, t, p) ==
    {i \in 1..Len(coll) :
        /\ Lower(coll[i][2].title[2]) = Lower(t)
        /\ (p = PyNone \/ coll[i][2].parent_id = p)}

Least(S) == CHOOSE i \in S : \A j \in S : i <= j

TreeTitles == {<<"N">>, <<"n">>, <<"X">>}

\* C16: a title that one or several entries of the kind carry resolves to
\* the identifier of the first of them in insertion order; in a path of two
\* segments the second segment resolves to the first entry with that title
\* among those whose parent_id is the entry chosen for the first segment.
C16_FirstOfSeveral ==
    Running =>
        \A k \in Kinds, t \in TreeTitles :
            \E coll \in {CollectionOf(data, k)} :
                Matching(coll, t, PyNone) # {} =>
                    \E root \in {coll[Least(Matching(coll, t, PyNone))][1]} :
                        /\ FindByPath(data, t, k) = root
                        /\ \A u \in TreeTitles :
                              Matching(coll, u, root) # {} =>
                                  FindByPath(data, t \o <<"/">> \o u, k)
                                      = coll[Least(Matching(coll, u, root))][1]

\* C16 witness: page p2 was cached before page p1, both under the title N
\* (case ignored), and the title resolves to p2
C16_Witness ==
    /\ pc = "refreshed"
    /\ Len(data.pages) = 2
    /\ data.pages[1][1] = PyStr(P2)
    /\ data.pages[2][1] = PyStr(P1)
    /\ Matching(data.pages, <<"N">>, PyNone) = {1, 2}
    /\ FindByPath(data, <<"N">>, "page") = PyStr(P2)

\* the chains of entries of kind k that spell the path: one position of the
\* collection per segment, each entry titled as its segment (case ignored)
\* and each but the first a child of the one before
Chains(d, path, k) ==
    LET parts == Parts(path)
        coll == CollectionOf(d, k)
    IN  {c \in [1..Len(parts) -> 1..Len(coll)] :
            \A i \in 1..Len(parts) :
                /\ Lower(coll[c[i]][2].title[2]) = Lower(parts[i])
                /\ i > 1 => coll[c[i]][2].parent_id = coll[c[i - 1]][1]}

\* C17: find_by_path returns None when no entry of the requested kind has
\* the title, also when the other kind has it, and when a segment has no
\* match under the entry resolved so far; what it returns otherwise is a key
\* of the collection of the requested kind, the end of a chain that spells
\* the path.
C17_NotFound ==
    Running =>
        \A path \in TreePaths, k \in Kinds :
            \E r \in {FindByPath(data, path, k)}, coll \in {CollectionOf(data, k)} :
                /\ Chains(data, path, k) = {} => r = PyNone
                /\ Matching(coll, Parts(path)[1], PyNone) = {} => r = PyNone
                /\ (/\ Len(Parts(path)) > 1
                    /\ Truthy(SegmentZero(data, path, k))
                    /\ Matching(coll, Parts(path)[Len(Parts(path))],
                                SegmentZero(data, path, k)) = {})
                      => r = PyNone
                /\ r # PyNone =>
                      /\ DictHas(coll, r)
                      /\ \E c \in Chains(data, path, k) :
                            coll[c[Len(Parts(path))]][1] = r

\* C17 witness: the title N is cached as a database only; it is found as a
\* database and not as a page
C17_Witness ==
    /\ pc = "refreshed"
    /\ data.pages = <<>>
    /\ FindByPath(data, <<"N">>, "database") = PyStr(P1)
    /\ FindByPath(data, <<"N">>, "page") = PyNone

ToUpper ==
    [c \in {LowerCase[i] : i \in 1..Len(LowerCase)} |->
        UpperCase[CHOOSE i \in 1..Len(LowerCase) : LowerCase[i] = c]]

\* the string in capitals
Upper(s) == [i \in 1..Len(s) |-> IF s[i] \in DOMAIN ToUpper THEN ToUpper[s[i]] ELSE s[i]]

\* the string with a blank on either side of every "/"
RECURSIVE Spaced(_)
Spaced(s) ==
    IF s = <<>> THEN <<>>
    ELSE (IF Head(s) = "/" THEN <<" ", "/", " ">> ELSE <<Head(s)>>) \o Spaced(Tail(s))

\* the path with a blank before and after each of its segments
Pad(path) == <<" ">> \o Spaced(path) \o <<" ">>

\* other ways of writing the path: in small letters, in capitals, padded
Variants(path) == {Lower(path), Upper(path), Pad(path), Pad(Upper(path))}

\* C18: find_by_path returns the same for a path, for the path in another
\* letter case, and for the path with blanks around its segments.
C18_CaseAndBlanks ==
    Running =>
        \A path \in TreePaths, k \in Kinds :
            \A v \in Variants(path) :
                FindByPath(data, v, k) = FindByPath(data, path, k)

\* C18 witness: page p2 titled N inside page p1 titled N is found under
\* " n / N "
C18_Witness ==
    /\ pc = "refreshed"
    /\ Pad(<<"n", "/", "N">>) = <<" ", "n", " ", "/", " ", "N", " ">>
    /\ FindByPath(data, Pad(<<"n", "/", "N">>), "page") = PyStr(P2)
    /\ FindByPath(data, <<"N", "/", "N">>, "page") = PyStr(P2)

\* R[i] is the last result of R for its identifier and kind
LastOccurrence(R, i) ==
    \A j \in (i + 1)..Len(R) : ~(R[j].id = R[i].id /\ R[j].object = R[i].object)

C20_PersistedAgrees ==
    pc = "refreshed" =>
        /\ ~raised
        /\ data.last_refresh = IsoFormat(now)
        /\ file.kind = "json"
        /\ CacheEq(JsonLoad(file.doc), data)

\* the list names no child twice
NoRepeat(kids) == \A i, j \in 1..Len(kids) : kids[i] = kids[j] => i = j

\* C24: whatever result lists have been merged, in one call or in several,
\* no list of the hierarchy index names a child twice.
C24_NoDuplicateChild ==
    \A i \in 1..Len(data.hierarchy) : NoRepeat(data.hierarchy[i][2])

\* C24 witness: an index with a list of two children and a list of one, on
\* which merging results for these same children again changes nothing
C24_Witness ==
    /\ pc = "refreshed"
    /\ \E i \in 1..Len(data.hierarchy) : Len(data.hierarchy[i][2]) = 2
    /\ ChildrenOf(data, PyStr(P1)) = {PyStr(P2)}
    /\ \E R \in TreeResults :
          /\ Len(R) = 2
          /\ R[1] # R[2]
          /\ \A n \in 1..Len(R) : Truthy(ExtractParent(R[n]))
          /\ UpdateFromSearch(data, R, now).hierarchy = data.hierarchy

-----------------------------------------------------------------------------
(* Paths of several segments: invocations that merge a chain of three      *)
(* pages and databases that have the pages' identifiers, SpecDeep          *)

\* page p1 titled N at the top, page p2 titled N inside p1, page p3 titled N
\* inside p2; database p2 titled X inside page p1; a database that has the
\* identifier p1, titled N
DeepItems ==
    {Page(P1, Text(<<"N">>), WorkspaceParent),
     Page(P2, Text(<<"N">>), PageParent(P1)),
     Page(P3, Text(<<"N">>), PageParent(P2)),
     Database(P2, Text(<<"X">>), PageParent(P1)),
     Database(P1, Text(<<"N">>), WorkspaceParent)}

NextDeep == Construct \/ Refresh(DeepItems) \/ Exit

SpecDeep == Init /\ [][NextDeep]_vars

\* the paths looked up, of one, two and three segments
DeepPaths ==
    {<<"N">>, <<"n", "/", "N">>, <<"N", "/", "X">>, <<"N", "/", "N", "/", "n">>,
     <<"N", "/", "X", "/", "N">>}

\* C25: an identifier returned for a path of two or more segments is the
\* last of a chain of entries of the requested kind, one for each segment,
\* whose titles are the segments with case ignored and each of which, from
\* the second on, has the one before it as parent_id.
C25_EndOfParentChain ==
    Running =>
        \A path \in DeepPaths, k \in Kinds :
            \E r \in {FindByPath(data, path, k)}, coll \in {CollectionOf(data, k)} :
                (Len(Parts(path)) >= 2 /\ r # PyNone) =>
                    \E c \in Chains(data, path, k) :
                        \E e \in {[i \in DOMAIN c |-> coll[c[i]][2]]} :
                            /\ e[Len(e)].id = r
                            /\ \A i \in DOMAIN e :
                                  /\ Lower(e[i].title[2]) = Lower(Parts(path)[i])
                                  /\ i >= 2 => e[i].parent_id = e[i - 1].id

\* C25 witness: the path N/N/n of three segments gives p3, and the path
\* N/X gives database p2
C25_Witness ==
    /\ pc = "refreshed"
    /\ FindByPath(data, <<"N", "/", "N", "/", "n">>, "page") = PyStr(P3)
    /\ FindByPath(data, <<"N", "/", "X">>, "database") = PyStr(P2)

\* the entry find_by_path is committed to after each segment: the first
\* entry, in insertion order, with the segment's title (for the first
\* segment) or with that title and the entry before as parent; None from the
\* first segment on that has no such entry
Committed(d, path, k) ==
    LET parts == Parts(path)
        coll == CollectionOf(d, k)
        first[i \in 1..Len(parts)] ==
            IF i = 1
            THEN IF Matching(coll, parts[1], PyNone) = {} THEN PyNone
                 ELSE coll[Least(Matching(coll, parts[1], PyNone))][1]
            ELSE IF first[i - 1] = PyNone \/ Matching(coll, parts[i], first[i - 1]) = {}
                 THEN PyNone
                 ELSE coll[Least(Matching(coll, parts[i], first[i - 1]))][1]
    IN  first

\* C27: find_by_path keeps to the first match of every segment: its result
\* is the entry committed to at the last segment, and it is None as soon as
\* the entry committed to at one segment has no child with the title of the
\* next, whether or not another chain of entries spells the path.
C27_NoBacktracking ==
    Running =>
        \A path \in DeepPaths, k \in Kinds :
            \E r \in {FindByPath(data, path, k)}, first \in {Committed(data, path, k)} :
                /\ r = first[Len(first)]
                /\ \A i \in 1..(Len(first) - 1) :
                      (/\ first[i] # PyNone
                       /\ Matching(CollectionOf(data, k), Parts(path)[i + 1], first[i]) = {})
                          => r = PyNone

\* C27 witness: page p2 titled N was cached before its parent p1, also
\* titled N: the chain p1, p2 spells n/N, yet the lookup stops at p2, which
\* has no child, and gives None
C27_Witness ==
    /\ pc = "refreshed"
    /\ Chains(data, <<"n", "/", "N">>, "page") # {}
    /\ Committed(data, <<"n", "/", "N">>, "page")[1] = PyStr(P2)
    /\ FindByPath(data, <<"n", "/", "N">>, "page") = PyNone

\* C28: every segment of a path is looked up in the collection of the
\* requested kind: the result is None when some segment, the last or one
\* before it, is the title of no entry of that kind, whatever the other
\* collection holds.
C28_EverySegmentInKind ==
    Running =>
        \A path \in DeepPaths, k \in Kinds :
            \A i \in 1..Len(Parts(path)) :
                Matching(CollectionOf(data, k), Parts(path)[i], PyNone) = {} =>
                    FindByPath(data, path, k) = PyNone

\* C28 witness: N is cached as page p1 only, database p2 titled X has p1 as
\* parent_id, and N/X is not found as a database
C28_Witness ==
    /\ pc = "refreshed"
    /\ FindByPath(data, <<"N">>, "page") = PyStr(P1)
    /\ FindByPath(data, <<"X">>, "database") = PyStr(P2)
    /\ DictGet(data.databases, PyStr(P2)).parent_id = PyStr(P1)
    /\ ~DictHas(data.databases, PyStr(P1))
    /\ FindByPath(data, <<"N", "/", "X">>, "database") = PyNone

\* other contents the hierarchy index of d could have: nothing, its keys
\* with no children, every child listed under every identifier
OtherIndexes(d) ==
    {<<>>,
     [i \in 1..Len(d.hierarchy) |-> <<d.hierarchy[i][1], <<>>>>],
     <<<<PyStr(P1), <<PyStr(P1), PyStr(P2), PyStr(P3)>>>>,
       <<PyStr(P2), <<PyStr(P1), PyStr(P2), PyStr(P3)>>>>,
       <<PyStr(P3), <<PyStr(P1), PyStr(P2), PyStr(P3)>>>>>>}

\* what a resolve call that had to search gives back and leaves in the two
\* collections
Outcome(r) == <<r.pc, r.returned, r.failure, r.data.pages, r.data.databases>>

\* C29: a cache with the same pages and databases and another hierarchy
\* index answers find_by_path, get_title and resolve (with or without its
\* search) as this one does.
C29_IndexNeverRead ==
    Running =>
        \A h \in OtherIndexes(data) :
            \E other \in {[data EXCEPT !.hierarchy = h]} :
                /\ \A path \in DeepPaths, k \in Kinds :
                      /\ FindByPath(other, path, k) = FindByPath(data, path, k)
                      /\ ResolveLookup(other, path, k) = ResolveLookup(data, path, k)
                      /\ \A R \in ResultLists(DeepItems, 1) :
                            Outcome(ResolveFallback(other, path, k, R, now))
                                = Outcome(ResolveFallback(data, path, k, R, now))
                /\ \A id \in {PyStr(P1), PyStr(P2), PyStr(P3)} :
                      GetTitle(other, id) = GetTitle(data, id)

\* C29 witness: the index lists p2 under p1 and p3 under p2, the path N/N/n
\* gives p3, and it gives p3 with an empty index as well
C29_Witness ==
    /\ pc = "refreshed"
    /\ ChildrenOf(data, PyStr(P1)) = {PyStr(P2)}
    /\ ChildrenOf(data, PyStr(P2)) = {PyStr(P3)}
    /\ FindByPath(data, <<"N", "/", "N", "/", "n">>, "page") = PyStr(P3)
    /\ FindByPath([data EXCEPT !.hierarchy = <<>>], <<"N", "/", "N", "/", "n">>, "page")
          = PyStr(P3)

-----------------------------------------------------------------------------
(* Two invocations on one cache file, SpecRace: each constructs its cache  *)
(* (loading the file), merges the results of its own search and saves.     *)
(* Nothing orders the steps of the one against the steps of the other.     *)

\* NotionCache.__init__ in the second invocation
PeerConstruct ==
    /\ peer.pc = "off"
    /\ dirExists' = Mkdir(dirExists)
    /\ peer' = [pc |-> "ready", data |-> Load(file).val]
    /\ UNCHANGED <<data, file, now, raised, pc, name, kind, returned, failure, query,
                   searches, lookups, got, before, updatedAt, pager>>

\* update_from_search(results) in the second invocation; the directory is
\* there since its __init__
PeerRefresh(S) ==
    /\ peer.pc \in {"ready", "refreshed"}
    /\ \E results \in ResultLists(S, MaxResults) :
          \E merged \in {UpdateFromSearch(peer.data, results, now)} :
              /\ peer' = [pc |-> "refreshed", data |-> merged]
              /\ file' = WriteFile(file, merged)
    /\ UNCHANGED <<data, dirExists, now, raised, pc, name, kind, returned, failure,
                   query, searches, lookups, got, before, updatedAt, pager>>

\* the second invocation ends
PeerExit ==
    /\ peer.pc \in {"ready", "refreshed"}
    /\ peer' = NoPeer
    /\ UNCHANGED <<data, file, dirExists, now, raised, pc, name, kind, returned,
                   failure, query, searches, lookups, got, before, updatedAt, pager>>

\* what the two searches report: page p1 titled N and page p2 titled n
RaceItems ==
    {Page(P1, Text(<<"N">>), WorkspaceParent),
     Page(P2, Text(<<"n">>), WorkspaceParent)}

NextRace ==
    \/ Construct
    \/ Refresh(RaceItems)
    \/ Exit
    \/ PeerConstruct
    \/ PeerRefresh(RaceItems)
    \/ PeerExit

SpecRace == Init /\ [][NextRace]_vars

\* C22: while two invocations that have both saved are running, the file is
\* the state of one of them as a whole, that of the one that saved last:
\* a save writes the saver's own state and keeps nothing of what the other
\* had written.
C22_LastWriteWins ==
    (pc = "refreshed" /\ peer.pc = "refreshed" /\ ~raised) =>
        \/ file = Save(data)
        \/ file = Save(peer.data)

\* C22 witness, the lost update: both invocations loaded the file before
\* either saved; the first merged page p1 and saved, the second merged page
\* p2 and saved last; the file is the second one's state and p1 is missing
C22_Witness ==
    /\ pc = "refreshed"
    /\ peer.pc = "refreshed"
    /\ DictKeys(data.pages) = {PyStr(P1)}
    /\ DictKeys(peer.data.pages) = {PyStr(P2)}
    /\ file = Save(peer.data)
    /\ ~DictHas(JsonLoad(file.doc).pages, PyStr(P1))

-----------------------------------------------------------------------------
(* The pagination loops of search_notion and of query database, SpecPages: *)
(* the loop posts a request, awaits the response and goes round again.     *)

\* the loop's variables as the function sets them before its loop
StartLoop(op, fetch_all) ==
    [pc |-> "loop", op |-> op, fetch_all |-> fetch_all, start_cursor |-> PyNone,
     has_more |-> TRUE, all_results |-> <<>>, sent |-> <<>>, received |-> <<>>]

\* if start_cursor: body["start_cursor"] = start_cursor
BodyCursor(start_cursor) == IF Truthy(start_cursor) THEN start_cursor ELSE PyNone

\* mutant of AfterResponse: the cursor is followed whether or not --all was
\* given
AfterResponse_AlwaysFollow(p, response) ==
    [p EXCEPT !.pc = "loop",
              !.received = Append(@, response),
              !.all_results = @ \o response.results,
              !.has_more = Truthy(response.has_more),
              !.start_cursor = response.next_cursor]

\* the loop's variables after data = response.json(): all_results.extend,
\* has_more = data.get("has_more", False), start_cursor =
\* data.get("next_cursor"); without --all query database sets has_more False
AfterResponse(p, response) ==
    [p EXCEPT !.pc = "loop",
              !.received = Append(@, response),
              !.all_results = @ \o response.results,
              !.has_more = IF p.fetch_all THEN Truthy(response.has_more) ELSE FALSE,
              !.start_cursor = IF p.fetch_all THEN response.next_cursor ELSE @]

\* what the remote may answer as its page n: no result or one, has_more
\* true, false or left out, and a next_cursor of its own or none; its last
\* page says has_more false or leaves it out
Responses(n) ==
    [results : ResultLists(RaceItems, 1),
     has_more : IF n < MaxPages THEN {PyTrue, PyFalse, PyNone} ELSE {PyFalse, PyNone},
     next_cursor : {PyNone, PyStr(Rep("c", n))}]

\* search_notion is called
StartSearch ==
    /\ pager.pc = "idle"
    /\ pager' = StartLoop("search", TRUE)
    /\ UNCHANGED <<data, file, dirExists, now, raised, pc, name, kind, returned,
                   failure, query, searches, lookups, got, before, updatedAt, peer>>

\* query database is called, with or without --all
StartQuery ==
    /\ pager.pc = "idle"
    /\ \E fetch_all \in BOOLEAN : pager' = StartLoop("query", fetch_all)
    /\ UNCHANGED <<data, file, dirExists, now, raised, pc, name, kind, returned,
                   failure, query, searches, lookups, got, before, updatedAt, peer>>

\* while has_more: the body is built and posted
Send ==
    /\ pager.pc = "loop"
    /\ pager.has_more
    /\ pager' = [pager EXCEPT !.pc = "waiting",
                              !.sent = Append(@, BodyCursor(pager.start_cursor))]
    /\ UNCHANGED <<data, file, dirExists, now, raised, pc, name, kind, returned,
                   failure, query, searches, lookups, got, before, updatedAt, peer>>

\* the awaited response arrives with a good status
Receive ==
    /\ pager.pc = "waiting"
    /\ Len(pager.received) < MaxPages
    /\ \E response \in Responses(Len(pager.received) + 1) :
          pager' = AfterResponse(pager, response)
    /\ UNCHANGED <<data, file, dirExists, now, raised, pc, name, kind, returned,
                   failure, query, searches, lookups, got, before, updatedAt, peer>>

\* the post times out or raise_for_status raises
Fail ==
    /\ pager.pc = "waiting"
    /\ pager' = [pager EXCEPT !.pc = "raised"]
    /\ UNCHANGED <<data, file, dirExists, now, raised, pc, name, kind, returned,
                   failure, query, searches, lookups, got, before, updatedAt, peer>>

\* has_more is false: the loop is left and all_results returned
Return ==
    /\ pager.pc = "loop"
    /\ ~pager.has_more
    /\ pager' = [pager EXCEPT !.pc = "done"]
    /\ UNCHANGED <<data, file, dirExists, now, raised, pc, name, kind, returned,
                   failure, query, searches, lookups, got, before, updatedAt, peer>>

NextPages == StartSearch \/ StartQuery \/ Send \/ Receive \/ Fail \/ Return

\* the loop is straight-line code, so its next step is taken; a request is
\* answered or times out (timeout=30.0)
SpecPages ==
    /\ Init
    /\ [][NextPages]_vars
    /\ WF_vars(Send)
    /\ WF_vars(Return)
    /\ WF_vars(Receive \/ Fail)

\* the results of the responses, one page after the other
RECURSIVE Concat(_)
Concat(responses) ==
    IF responses = <<>> THEN <<>>
    ELSE Head(responses).results \o Concat(Tail(responses))

\* one request at a time, each with the cursor of the response before it,
\* none after a response without has_more, one only without --all; what is
\* returned is the pages' results in the order of the requests
Sequential ==
    /\ Len(pager.sent) = Len(pager.received) + (IF pager.pc \in {"waiting", "raised"} THEN 1 ELSE 0)
    /\ \A i \in 1..Len(pager.sent) :
          IF i = 1 THEN pager.sent[i] = PyNone
          ELSE /\ pager.sent[i] = pager.received[i - 1].next_cursor
               /\ pager.received[i - 1].has_more = PyTrue
               /\ pager.fetch_all
    /\ pager.op = "search" => pager.fetch_all
    /\ pager.all_results = Concat(pager.received)
    /\ pager.pc = "done" =>
          /\ Len(pager.sent) >= 1
          /\ Len(pager.received) = Len(pager.sent)
          /\ pager.fetch_all => pager.received[Len(pager.received)].has_more # PyTrue

\* C26: the loops are sequential: one request at a time, each carrying the
\* next_cursor of the response before it, none after the first response
\* whose has_more is not true, exactly one for query database without
\* --all; the pages' results are returned in request order; and against a
\* remote that ends its pages the loop always comes to its end.
C26_SequentialPaging ==
    /\ []Sequential
    /\ (pager.pc \in {"loop", "waiting"}) ~> (pager.pc \in {"done", "raised"})

\* C26 witness: search_notion has returned after as many requests as the
\* remote has pages, with a result from each
C26_Witness ==
    /\ pager.op = "search"
    /\ pager.pc = "done"
    /\ Len(pager.sent) = MaxPages
    /\ Len(pager.all_results) = MaxPages

-----------------------------------------------------------------------------
(* The resolver and the list command on an ageing cache, SpecAged *)

\* the list command after its NotionCache(): with --refresh or a stale cache
\* it searches without query or filter and merges what it gets, otherwise it
\* prints from the cache as it is
ListCommand(S) ==
    /\ pc = "ready"
    /\ \E refresh \in BOOLEAN :
          IF refresh \/ IsStale(data, now)
          THEN Refresh(S)
          ELSE /\ Idle("listed")
               /\ UNCHANGED <<peer, pager, data, file, dirExists, now, raised, updatedAt>>

\* more than the time to live passes between two invocations
Age ==
    /\ pc = "off"
    /\ now + CACHE_TTL_HOURS + 1 <= MaxTime
    /\ now' = now + CACHE_TTL_HOURS + 1
    /\ UNCHANGED <<peer, pager, data, file, dirExists, raised, pc, name, kind, returned,
                   failure, query, searches, lookups, got, before, updatedAt>>

\* page P at the top and page N inside it
AgedObjects ==
    {Page(IdA, Text(<<"P">>), WorkspaceParent),
     Page(IdB, Text(<<"N">>), PageParent(IdA))}

NextAged ==
    \/ Construct
    \/ ListCommand(AgedObjects)
    \/ ResolveIn({<<"N">>, <<"P", "/", "N">>, IdA})
    \/ SearchReturnFrom(AgedObjects)
    \/ Exit
    \/ Age

SpecAged == Init /\ [][NextAged]_vars

\* C21: last_refresh is absent or the time of the last full update: a
\* resolve call, which merges at most a result set filtered by query and
\* kind, leaves last_refresh as it found it, and after the unfiltered update
\* of the list command last_refresh is the time of that update.
C21_LastRefreshIsFullUpdate ==
    /\ (Resolving /\ pc \in {"returned", "failed"}) =>
          Get(data, "last_refresh", PyNone) = Get(CacheBefore, "last_refresh", PyNone)
    /\ pc = "refreshed" => Get(data, "last_refresh", PyNone) = IsoFormat(now)

\* C30: resolve does not look at the age of the cache: a name the cache
\* holds is returned from it with no search and no change to the cache or the
\* file, however old last_refresh is; the list command is the one that looks
\* at the age, it prints from the cache as it is only when the cache is fresh.
C30_ResolveIgnoresAge ==
    /\ (Resolving /\ ~LooksLikeId(name) /\ Truthy(FindByPath(CacheBefore, name, kind))) =>
          /\ pc = "returned"
          /\ searches = 0
          /\ returned = FindByPath(CacheBefore, name, kind)
          /\ data = CacheBefore
          /\ file = FileBefore
    /\ pc = "listed" => (searches = 0 /\ ~IsStale(data, now))

\* C30 witness: a path was answered from a cache that is stale
C30_Witness ==
    /\ Resolving
    /\ name = <<"P", "/", "N">>
    /\ pc = "returned"
    /\ searches = 0
    /\ data.pages # <<>>
    /\ IsStale(data, now)

====
